---- MODULE Spec2Model ----
(***************************************************************************)
(* A model of mriqc_sub.py (the participant-level submission loop) and of  *)
(* mriqc_group.py (the group-level submission), two command line wrappers  *)
(* around mriqc.                                                           *)
(*                                                                         *)
(* Strings are modelled as sequences of tokens ("sub-", "0", "1", "_" ...),*)
(* so that f-string concatenation is \o, str.startswith and glob prefixes  *)
(* are sequence prefixes and Python's `in` on strings is a contiguous      *)
(* sub-sequence.  A path is a sequence of parts, a part is a string.       *)
(*                                                                         *)
(* Spec is one invocation of one of the scripts on a file system and a     *)
(* resource manager that nothing else changes meanwhile.  The sessions     *)
(* given with -s are "sub-#/ses-#" names, as the option's help asks for,   *)
(* so that every session path has a part that starts with 'sub-'.          *)
(* mriqc, qsub / sbatch and the job query are outside the scripts: a       *)
(* command returns any of Replies, a job whose submission returns 0 is     *)
(* queued, and a local mriqc run that returns 0 writes one report per      *)
(* input image.                                                            *)
(***************************************************************************)
EXTENDS Naturals, Sequences, FiniteSets, TLC

VARIABLES
    prog,        \* which script runs: "sub" (mriqc_sub.py) or "group" (mriqc_group.py)
    fOpt,        \* the user gave -f/--force on the command line
    bidsdir,     \* main's bidsdir, a path
    tree,        \* the files below (or at) bidsdir, as absolute paths
    sessionsArg, \* main's sessions argument (-s), a sequence of relative paths
    workroot,    \* main's workroot (-w), "" is <<>>
    force, skip, dryrun, nosub,   \* main's flags
    sessions,    \* the enumerated session directories (mriqc_sub.py:30-35)
    n,           \* index of the session the loop is at (1-based)
    outIsDir,    \* outputdir is an existing directory
    outfiles,    \* names of the files in outputdir
    workdirs,    \* the existing working directories, as paths
    queue,       \* names of the jobs running / queued / held at the resource manager
    running,     \* running.stdout of the latest query, a set of lines
    log,         \* every external effect so far, in program order
    outcome,     \* what the loop printed for each session it has passed
    hint,        \* the final "Now wait for the job(s) to finish..." text was printed
    status,      \* exit status of the process: "running", "zero" or "nonzero"
    pc,
    peer         \* a second invocation of mriqc_sub.py on the same dataset: where it is
                 \* ("idle", "run", "done") and the session it handles

inputs == <<prog, fOpt, bidsdir, tree, sessionsArg, workroot, force, skip, dryrun, nosub>>
vars == <<prog, fOpt, bidsdir, tree, sessionsArg, workroot, force, skip, dryrun, nosub,
          sessions, n, outIsDir, outfiles, workdirs, queue, running, log, outcome,
          hint, status, pc, peer>>

(***************************************************************************)
(* Bounds of the model.                                                    *)
(***************************************************************************)
\* longest explicit -s list
MaxSessions == 2


(***************************************************************************)
(* Strings and paths.                                                      *)
(***************************************************************************)
\* str.startswith(prefix) / the literal head of a glob pattern
IsPrefix(p, s) == Len(p) <= Len(s) /\ SubSeq(s, 1, Len(p)) = p

\* Python's `sub in s` on strings
Contains(s, sub) ==
    \E i \in 0..Len(s) : i + Len(sub) <= Len(s) /\ SubSeq(s, i + 1, i + Len(sub)) = sub

Last(s) == s[Len(s)]
Front(s) == SubSeq(s, 1, Len(s) - 1)

\* pathlib's path / part: an empty part ('') leaves the path as it is
Join(path, part) == IF part = <<>> THEN path ELSE Append(path, part)

\* the enumerations of a finite set (a directory listing in any order)
Listings(S) == {s \in [1..Cardinality(S) -> S] : \A x \in S : \E i \in DOMAIN s : s[i] = x}

Min(S) == CHOOSE x \in S : \A y \in S : x <= y

(***************************************************************************)
(* The names the inputs are drawn from.                                    *)
(***************************************************************************)
sub01 == <<"sub-", "0", "1">>
sub02 == <<"sub-", "0", "2">>
sub09 == <<"sub-", "0", "9">>
ses1  == <<"ses-", "1">>
ses10 == <<"ses-", "1", "0">>

\* f"{sub_id}_{ses_id}"
Unit(sub, ses) == sub \o <<"_">> \o ses

BidsRoot == << <<"bids">> >>

\* a dataset with session sub-folders: sub-01/ses-1 (T1w + bold) and sub-01/ses-10 (T1w)
SesFiles ==
    { <<sub01, ses1,  <<"anat">>, Unit(sub01, ses1)  \o <<"_", "T1w", ".nii", ".gz">> >>,
      <<sub01, ses1,  <<"anat">>, Unit(sub01, ses1)  \o <<"_", "T1w", ".json">> >>,
      <<sub01, ses1,  <<"func">>, Unit(sub01, ses1)  \o <<"_", "bold", ".nii", ".gz">> >>,
      <<sub01, ses10, <<"anat">>, Unit(sub01, ses10) \o <<"_", "T1w", ".nii">> >> }

\* a dataset without session sub-folders: sub-01 (T1w) and sub-02 (T2w + bold in extra_data)
FlatFiles ==
    { <<sub01, <<"anat">>,       sub01 \o <<"_", "T1w", ".nii">> >>,
      <<sub02, <<"extra_data">>, sub02 \o <<"_", "T2w", ".nii", ".gz">> >>,
      <<sub02, <<"extra_data">>, sub02 \o <<"_", "bold", ".nii">> >> }

\* what bidsdir may hold: the two datasets, or nothing at all (bidsdir does not
\* exist), or bidsdir being a plain file
SesTree(root)  == {root \o f : f \in SesFiles}
FlatTree(root) == {root \o f : f \in FlatFiles}
NoTree         == {}
FileTree(root) == {root}

\* the values of -s: "sub-#/ses-#" names (mriqc_sub.py:159), one of them not on disk
SessionArgs == { <<sub01, ses1>>, <<sub09, ses1>> }

SeqsUpTo(S, k) == UNION { [1..m -> S] : m \in 0..k }

\* participant-level reports an output directory may hold before the run
ReportNames ==
    { Unit(sub01, ses1)  \o <<"_", "T1w", ".html">>,
      Unit(sub01, ses1)  \o <<"_", "bold", ".html">>,
      Unit(sub01, ses10) \o <<"_", "T1w", ".html">> }

\* the group-level report
GroupReport == <<"group", "_", "T1w", ".html">>

\* names of participant-level jobs the resource manager may hold before the run
JobNames ==
    { <<"mriqc_">> \o Unit(sub01, ses1),
      <<"mriqc_">> \o Unit(sub01, ses10) }

GroupJob == <<"mriqc_", "group">>

WorkRoots == { <<>>, << <<"work">> >> }

\* working directories left behind by an earlier run of sub-01/ses-1
StaleWorkdirs ==
    { << <<"tmp">>, Unit(sub01, ses1) >>,
      << <<"$TMPDIR">>, Unit(sub01, ses1) >>,
      << <<"work">>, Unit(sub01, ses1) >> }

\* argparse action='store_true': the option's value is whether it was given
StoreTrue(given) == given
\* argparse action='store_false': the option's value is TRUE unless it was given
StoreFalse(given) == ~given

\* args.force as the script's parser computes it from the command line
ParseForce(p, given) == IF p = "sub" THEN StoreTrue(given) ELSE StoreFalse(given)

\* mriqc_sub.py is started: without -s on any tree, with -s on the dataset that
\* holds sub-01/ses-1 and on a missing bidsdir
InitSub ==
    /\ prog = "sub"
    /\ sessionsArg \in SeqsUpTo(SessionArgs, MaxSessions)
    /\ tree \in IF sessionsArg = <<>>
                THEN {SesTree(bidsdir), FlatTree(bidsdir), NoTree, FileTree(bidsdir)}
                ELSE {SesTree(bidsdir), NoTree}
    /\ workroot \in WorkRoots
    /\ skip \in BOOLEAN
    /\ dryrun \in BOOLEAN
    /\ nosub \in BOOLEAN
    /\ outfiles \in SUBSET ReportNames
    /\ outIsDir = TRUE
    /\ workdirs = StaleWorkdirs
    /\ queue \in SUBSET JobNames

\* mriqc_group.py is started; it takes no sessions, workroot, skip or dryrun
InitGroup ==
    /\ prog = "group"
    /\ sessionsArg = <<>>
    /\ tree = SesTree(bidsdir)
    /\ workroot = <<>>
    /\ skip = TRUE
    /\ dryrun = FALSE
    /\ nosub \in BOOLEAN
    /\ outfiles \in SUBSET (ReportNames \cup {GroupReport})
    /\ outIsDir \in {b \in BOOLEAN : outfiles # {} => b}
    /\ workdirs = {}
    /\ queue \in SUBSET (JobNames \cup {GroupJob})

\* no second invocation has been started
NoPeer == [at |-> "idle", session |-> <<>>]

\* the state at the start of a script called with the dataset directory root
InitAt(root) ==
    /\ bidsdir = root
    /\ fOpt \in BOOLEAN
    /\ InitSub \/ InitGroup
    /\ force = ParseForce(prog, fOpt)
    /\ peer = NoPeer
    /\ sessions = <<>>
    /\ n = 1
    /\ running = {}
    /\ log = <<>>
    /\ outcome = <<>>
    /\ hint = FALSE
    /\ status = "running"
    /\ pc = "start"

Init == InitAt(BidsRoot)

(***************************************************************************)
(* mriqc_sub.py: main                                                      *)
(***************************************************************************)
StartsWith(part, tok) == part # <<>> /\ Head(part) = tok

\* IsDir taking every path for a directory
IsDirAlways(p) == TRUE

\* Path.is_dir(): some file lies below the path
IsDir(p) == \E f \in tree : Len(f) > Len(p) /\ IsPrefix(p, f)

\* the entries of directory d
Children(d) == {SubSeq(f, 1, Len(d) + 1) : f \in {g \in tree : Len(g) > Len(d) /\ IsPrefix(d, g)}}

\* bidsdir.glob('sub-*')
GlobSub == {p \in Children(bidsdir) : StartsWith(Last(p), "sub-")}

\* bidsdir.glob('sub-*/ses-*')
GlobSubSes == {p \in UNION {Children(c) : c \in GlobSub} : StartsWith(Last(p), "ses-")}

\* the first part of the session path that starts with 'sub-'
sub_id(session) ==
    session[Min({i \in DOMAIN session : StartsWith(session[i], "sub-")})]

\* the first part of the session path that starts with 'ses-', or ''
ses_id(session) ==
    LET I == {i \in DOMAIN session : StartsWith(session[i], "ses-")}
    IN  IF I = {} THEN <<>> ELSE session[Min(I)]

\* f"{sub_id}_{ses_id}"
UnitName(session) == Unit(sub_id(session), ses_id(session))

\* f"mriqc_{sub_id}_{ses_id}"
JobName(session) == <<"mriqc_">> \o UnitName(session)

tempdir == IF nosub THEN << <<"tmp">> >> ELSE << <<"$TMPDIR">> >>

workdir(session) ==
    IF workroot = <<>> THEN Append(tempdir, UnitName(session))
                       ELSE Append(workroot, UnitName(session))

\* fnmatch of f"{prefix}*{kind}.nii*" with kind one of kinds
MatchNii(prefix, kinds, name) ==
    /\ IsPrefix(prefix, name)
    /\ \E i \in (Len(prefix) + 1)..(Len(name) - 1) : name[i] \in kinds /\ name[i + 1] = ".nii"

\* (bidsdir/sub_id/ses_id/folder).glob(f"{sub_id}_{ses_id}*{kind}.nii*")
GlobNii(session, folder, kinds) ==
    LET d == Append(Join(Join(bidsdir, sub_id(session)), ses_id(session)), folder)
    IN  {f \in tree : Len(f) = Len(d) + 1 /\ IsPrefix(d, f)
                      /\ MatchNii(UnitName(session), kinds, Last(f))}

Tw == {"T1w", "T2w"}

niifiles(session) ==
    << GlobNii(session, <<"anat">>, Tw), GlobNii(session, <<"extra_data">>, Tw),
       GlobNii(session, <<"func">>, {"bold"}), GlobNii(session, <<"extra_data">>, {"bold"}) >>

nrniifiles(session) ==
    LET found == niifiles(session)
    IN  Cardinality(found[1]) + Cardinality(found[2]) +
        Cardinality(found[3]) + Cardinality(found[4])

\* fnmatch of f"{prefix}*.html"
MatchHtml(prefix, name) ==
    IsPrefix(prefix, name) /\ Len(name) > Len(prefix) /\ Last(name) = ".html"

\* list(outputdir.glob(f"{sub_id}_{ses_id}*.html"))
reports(session) == {r \in outfiles : MatchHtml(UnitName(session), r)}

\* Todo with the count compared by < : reports in excess would count as done
TodoAtLeast(session) == force \/ Cardinality(reports(session)) < nrniifiles(session)

\* Todo without the force flag
TodoNoForce(session) == ~(Cardinality(reports(session)) = nrniifiles(session))

\* the condition of the "Submit the mriqc job to the cluster" branch
Todo(session) == force \/ ~(Cardinality(reports(session)) = nrniifiles(session))

\* the "Cleaning:" block, on the working directories
CleanWorkdirs(session) ==
    IF force /\ workdir(session) \in workdirs /\ ~dryrun
    THEN workdirs \ {workdir(session)} ELSE workdirs

\* the "Cleaning:" block, on the output directory
CleanOutfiles(session) ==
    IF force /\ ~dryrun THEN outfiles \ reports(session) ELSE outfiles

Event(ev, arg) == [ev |-> ev, n |-> n, arg |-> arg]

CleanEvents(session) ==
    (IF force /\ workdir(session) \in workdirs /\ ~dryrun
     THEN <<Event("rmtree", workdir(session))>> ELSE <<>>) \o
    (IF force /\ ~dryrun /\ reports(session) # {}
     THEN <<Event("unlink", reports(session))>> ELSE <<>>)

\* QuerySub asked once: later loop bodies reuse the output of the first query
QuerySubOnce(q) ==
    IF \E k \in DOMAIN log : log[k].ev = "query"
    THEN running ELSE {j \in q : Contains(j, <<"mriqc_", "sub-">>)}

\* the lines of `squeue -h -o format=%j | grep mriqc_sub` (or of the qstat pipe)
QuerySub(q) == {j \in q : Contains(j, <<"mriqc_", "sub-">>)}

\* workdir.mkdir(parents=True, exist_ok=True) of a local run
MakeWorkdir(session, dirs) == IF nosub THEN dirs \cup {workdir(session)} ELSE dirs

MkdirEvents(session) == IF nosub THEN <<Event("mkdir", workdir(session))>> ELSE <<>>

\* Skipping with the skip flag left out of the test
SkippingAlways(session, stdout) == \E line \in stdout : Contains(line, JobName(session))

\* skip and f"mriqc_{sub_id}_{ses_id}" in running.stdout
Skipping(session, stdout) ==
    skip /\ \E line \in stdout : Contains(line, JobName(session))

\* Failed with the error stream ignored
FailedByCode(returncode, stderr) == returncode # 0

\* process.stderr or process.returncode != 0
Failed(returncode, stderr) == stderr \/ returncode # 0

\* the report mriqc writes for an input image: the name up to .nii, then .html
Html(name) ==
    SubSeq(name, 1, Min({i \in DOMAIN name : name[i] = ".nii"}) - 1) \o <<".html">>

Produced(session) ==
    LET found == niifiles(session)
    IN  {Html(Last(f)) : f \in found[1] \cup found[2] \cup found[3] \cup found[4]}

Snapshot(files, dirs) == [outfiles |-> files, workdirs |-> dirs]

\* what one pass of the loop body did: the counts it printed, the job name, the query's
\* output, and the output and working directories before and after
Result(res, session, stdout, files, dirs) ==
    [res |-> res, found |-> Cardinality(reports(session)), expected |-> nrniifiles(session),
     unit |-> UnitName(session), job |-> JobName(session), stdout |-> stdout,
     pre |-> Snapshot(outfiles, workdirs), post |-> Snapshot(files, dirs)]

\* `break` in the place of `continue`: the loop ends at the first missing directory
Break(k) == Len(sessions) + 1

\* `continue`: the loop goes on with the next session
Continue(k) == k + 1

\* what subprocess.run of the command may return: <<returncode, stderr is not empty>>
Replies == { <<0, FALSE>>, <<0, TRUE>>, <<1, FALSE>> }

\* lines 30-35: map the bids session-directories
Enumerate ==
    /\ prog = "sub" /\ pc = "start"
    /\ IF sessionsArg = <<>>
       THEN \E s \in Listings(IF GlobSubSes # {} THEN GlobSubSes ELSE GlobSub) : sessions' = s
       ELSE sessions' = [i \in DOMAIN sessionsArg |-> bidsdir \o sessionsArg[i]]
    /\ pc' = "loop"
    /\ UNCHANGED <<inputs, peer, n, outIsDir, outfiles, workdirs, queue, running, log, outcome,
                   hint, status>>

InLoop == prog = "sub" /\ pc = "loop" /\ n <= Len(sessions)

\* the branch the loop body takes for the session it is at
AtNotDir      == InLoop /\ ~IsDir(sessions[n])
AtNothingToDo == InLoop /\ IsDir(sessions[n]) /\ ~Todo(sessions[n])
AtBuild       == InLoop /\ IsDir(sessions[n]) /\ Todo(sessions[n])
AtSkipRunning == AtBuild /\ Skipping(sessions[n], QuerySub(queue))
AtDryRun      == dryrun /\ AtBuild /\ ~Skipping(sessions[n], QuerySub(queue))
AtSubmit      == ~dryrun /\ AtBuild /\ ~Skipping(sessions[n], QuerySub(queue))

\* lines 40-42: the session is not a directory
NotDir ==
    /\ AtNotDir
    /\ outcome' = Append(outcome, [res |-> "nodir", found |-> 0, expected |-> 0,
                                   unit |-> <<>>, job |-> <<>>, stdout |-> {},
                                   pre |-> Snapshot(outfiles, workdirs),
                                   post |-> Snapshot(outfiles, workdirs)])
    /\ n' = Continue(n)
    /\ UNCHANGED <<inputs, peer, sessions, outIsDir, outfiles, workdirs, queue, running, log,
                   hint, status, pc>>

\* lines 121-122: nothing to do
NothingToDo ==
    /\ AtNothingToDo
    /\ outcome' = Append(outcome, Result("nothing", sessions[n], {}, outfiles, workdirs))
    /\ n' = n + 1
    /\ UNCHANGED <<inputs, peer, sessions, outIsDir, outfiles, workdirs, queue, running, log,
                   hint, status, pc>>

\* lines 73-111: clean, query, and skip the job as already running / scheduled
SkipRunning ==
    /\ AtSkipRunning
    /\ running' = QuerySub(queue)
    /\ outfiles' = CleanOutfiles(sessions[n])
    /\ workdirs' = MakeWorkdir(sessions[n], CleanWorkdirs(sessions[n]))
    /\ log' = log \o CleanEvents(sessions[n]) \o <<Event("query", <<>>)>>
                  \o MkdirEvents(sessions[n])
    /\ outcome' = Append(outcome, Result("running", sessions[n], running', outfiles', workdirs'))
    /\ n' = n + 1
    /\ UNCHANGED <<inputs, peer, sessions, outIsDir, queue, hint, status, pc>>

\* lines 73-114: clean, query, and print the command of a dry run
DryRun ==
    /\ AtDryRun
    /\ running' = QuerySub(queue)
    /\ outfiles' = CleanOutfiles(sessions[n])
    /\ workdirs' = MakeWorkdir(sessions[n], CleanWorkdirs(sessions[n]))
    /\ log' = log \o CleanEvents(sessions[n]) \o <<Event("query", <<>>)>>
                  \o MkdirEvents(sessions[n])
    /\ outcome' = Append(outcome, Result("dryrun", sessions[n], running', outfiles', workdirs'))
    /\ n' = n + 1
    /\ UNCHANGED <<inputs, peer, sessions, outIsDir, queue, hint, status, pc>>

\* lines 73-119: clean, query, and submit the job or run it locally
Submit ==
    /\ AtSubmit
    /\ \E reply \in Replies :
        LET session == sessions[n]
            returncode == reply[1]
            stderr  == reply[2]
            made    == MakeWorkdir(session, CleanWorkdirs(session))
            written == IF nosub /\ returncode = 0 THEN Produced(session) ELSE {}
        IN  /\ running' = QuerySub(queue)
            /\ outfiles' = CleanOutfiles(session) \cup written
            /\ outIsDir' = (outIsDir \/ written # {})
            /\ workdirs' = IF nosub THEN made \ {workdir(session)} ELSE made
            /\ queue' = IF ~nosub /\ returncode = 0 THEN queue \cup {JobName(session)}
                                                    ELSE queue
            /\ log' = log \o CleanEvents(session) \o <<Event("query", <<>>)>>
                          \o MkdirEvents(session)
                          \o <<Event("run", <<returncode, stderr>>)>>
                          \o (IF nosub THEN <<Event("rmtree", workdir(session))>> ELSE <<>>)
            /\ outcome' = Append(outcome,
                    Result(IF Failed(returncode, stderr) THEN "failed" ELSE "submitted",
                           session, running', outfiles', workdirs'))
    /\ n' = n + 1
    /\ UNCHANGED <<inputs, peer, sessions, hint, status, pc>>

\* the text after "Done!" names the next step, mriqc_group
Hint(sess, dry, local) == sess # <<>> /\ ~dry /\ ~local

\* lines 124-134: the final message; main returns
Summary ==
    /\ prog = "sub" /\ pc = "loop" /\ n > Len(sessions)
    /\ hint' = Hint(sessions, dryrun, nosub)
    /\ status' = "zero"
    /\ pc' = "done"
    /\ UNCHANGED <<inputs, peer, sessions, n, outIsDir, outfiles, workdirs, queue, running, log,
                   outcome>>

(***************************************************************************)
(* mriqc_group.py: main                                                    *)
(***************************************************************************)
\* GroupReports counting every html file
GroupReportsAnyHtml == {r \in outfiles : Last(r) = ".html"}

\* list(outputdir.glob('sub-*.html'))
GroupReports == {r \in outfiles : StartsWith(r, "sub-") /\ Len(r) > 1 /\ Last(r) = ".html"}

\* the lines of `squeue -h -o format=%j | grep mriqc_` (or of the qstat pipe)
QueryGroup(q) == {j \in q : Contains(j, <<"mriqc_">>)}

\* `not force and 'mriqc_' in running.stdout.decode()`: with force set the test is
\* False without its right operand being evaluated; with force unset the operand is
\* evaluated and raises AttributeError, for running.stdout is a str (text=True)
SkipTest(f, stdout) == IF f THEN "submit" ELSE "AttributeError"

AtGroup == prog = "group" /\ pc = "start"

\* lines 24-26: the output directory does not exist
GroupNoOutdir ==
    /\ AtGroup
    /\ ~outIsDir
    /\ pc' = "done"
    /\ status' = "zero"
    /\ UNCHANGED <<inputs, peer, sessions, n, outIsDir, outfiles, workdirs, queue, running, log,
                   outcome, hint>>

\* lines 27-30: no participant-level report
GroupNoReports ==
    /\ AtGroup
    /\ outIsDir
    /\ GroupReports = {}
    /\ pc' = "done"
    /\ status' = "zero"
    /\ UNCHANGED <<inputs, peer, sessions, n, outIsDir, outfiles, workdirs, queue, running, log,
                   outcome, hint>>

\* lines 32-52: the query, then the skip test raises
GroupRaise ==
    /\ AtGroup
    /\ outIsDir
    /\ GroupReports # {}
    /\ SkipTest(force, QueryGroup(queue)) = "AttributeError"
    /\ running' = QueryGroup(queue)
    /\ log' = Append(log, Event("query", <<>>))
    /\ pc' = "raised"
    /\ status' = "nonzero"
    /\ UNCHANGED <<inputs, peer, sessions, n, outIsDir, outfiles, workdirs, queue, outcome, hint>>

\* lines 32-62: the query, then the job is submitted or run locally
GroupSubmit ==
    /\ AtGroup
    /\ outIsDir
    /\ GroupReports # {}
    /\ SkipTest(force, QueryGroup(queue)) = "submit"
    /\ \E reply \in Replies :
      LET returncode == reply[1]
          stderr == reply[2]
      IN
        /\ running' = QueryGroup(queue)
        /\ log' = log \o <<Event("query", <<>>), Event("run", <<returncode, stderr>>)>>
        /\ queue' = IF ~nosub /\ returncode = 0 THEN queue \cup {GroupJob}
                                                ELSE queue
        /\ outfiles' = IF nosub /\ returncode = 0
                       THEN outfiles \cup {GroupReport} ELSE outfiles
        /\ hint' = ~Failed(returncode, stderr)
    /\ pc' = "done"
    /\ status' = "zero"
    /\ UNCHANGED <<inputs, peer, sessions, n, outIsDir, workdirs, outcome>>

Next ==
    \/ Enumerate
    \/ NotDir
    \/ NothingToDo
    \/ SkipRunning
    \/ DryRun
    \/ Submit
    \/ Summary
    \/ GroupNoOutdir
    \/ GroupNoReports
    \/ GroupRaise
    \/ GroupSubmit

Spec == Init /\ [][Next]_vars

TypeOK ==
    /\ pc \in {"start", "loop", "done", "raised"}
    /\ status \in {"running", "zero", "nonzero"}
    /\ Len(outcome) = n - 1

(***************************************************************************)
(* Two invocations of mriqc_sub.py at once, both running their commands    *)
(* locally (nosub) without a work root.  The second one handles a single   *)
(* session; its command takes time, so that the steps of the first         *)
(* invocation fall between its start and its return.                       *)
(***************************************************************************)
\* lines 73-114 in the second invocation: the session is to be built and is not
\* skipped; it is cleaned if forced, its working directory is made and the command
\* is started
PeerStart ==
    /\ prog = "sub" /\ nosub /\ ~dryrun
    /\ pc = "loop" /\ peer.at = "idle"
    /\ \E k \in DOMAIN sessions :
        LET session == sessions[k]
        IN  /\ IsDir(session) /\ Todo(session)
            /\ ~Skipping(session, QuerySub(queue))
            /\ workdirs' = MakeWorkdir(session, CleanWorkdirs(session))
            /\ outfiles' = CleanOutfiles(session)
            /\ peer' = [at |-> "run", session |-> session]
    /\ UNCHANGED <<inputs, sessions, n, outIsDir, queue, running, log, outcome, hint,
                   status, pc>>

\* lines 114-119 in the second invocation: its command returns and it removes the
\* working directory
PeerEnd ==
    /\ peer.at = "run"
    /\ \E reply \in Replies :
        LET written == IF reply[1] = 0 THEN Produced(peer.session) ELSE {}
        IN  /\ outfiles' = outfiles \cup written
            /\ outIsDir' = (outIsDir \/ written # {})
    /\ workdirs' = workdirs \ {workdir(peer.session)}
    /\ peer' = [at |-> "done", session |-> peer.session]
    /\ UNCHANGED <<inputs, sessions, n, queue, running, log, outcome, hint, status, pc>>

InitPair == Init /\ prog = "sub" /\ nosub /\ ~dryrun /\ workroot = <<>>

NextPair ==
    \/ Enumerate
    \/ NotDir
    \/ NothingToDo
    \/ SkipRunning
    \/ Submit
    \/ Summary
    \/ PeerStart
    \/ PeerEnd

SpecPair == InitPair /\ [][NextPair]_vars

(***************************************************************************)
(* A forced run on an output directory that is not quiescent: a report     *)
(* that was listed by the glob of line 69 may be gone (or not removable)   *)
(* when the "Cleaning:" block gets to it.                                  *)
(***************************************************************************)
\* lines 76-84 with report.unlink() raising: the working directory has been removed,
\* the reports before the failing one (in the order of the listing) have been
\* unlinked, and the exception ends the process
UnlinkRaises ==
    /\ AtBuild /\ force /\ ~dryrun
    /\ LET session == sessions[n]
       IN  \E gone \in reports(session) :
           \E done \in SUBSET (reports(session) \ {gone}) :
               /\ workdirs' = CleanWorkdirs(session)
               /\ outfiles' = outfiles \ (done \cup {gone})
               /\ log' = log \o (IF workdir(session) \in workdirs
                                 THEN <<Event("rmtree", workdir(session))>> ELSE <<>>)
                             \o (IF done # {} THEN <<Event("unlink", done)>> ELSE <<>>)
                             \o <<Event("raise", gone)>>
    /\ pc' = "raised"
    /\ status' = "nonzero"
    /\ UNCHANGED <<inputs, peer, sessions, n, outIsDir, queue, running, outcome, hint>>

InitForced == Init /\ prog = "sub" /\ force /\ ~dryrun

NextForced ==
    \/ Enumerate
    \/ NotDir
    \/ SkipRunning
    \/ Submit
    \/ Summary
    \/ UnlinkRaises

SpecForced == InitForced /\ [][NextForced]_vars

(***************************************************************************)
(* mriqc_sub.py on a dataset whose own path has a part that starts with    *)
(* 'sub-'.                                                                 *)
(***************************************************************************)
SubRoot == << <<"sub-", "studies">>, <<"bids">> >>

InitRoot == InitAt(SubRoot) /\ prog = "sub" /\ workroot = <<>> /\ queue = {}

NextRoot ==
    \/ Enumerate
    \/ NotDir
    \/ NothingToDo
    \/ SkipRunning
    \/ DryRun
    \/ Submit
    \/ Summary

SpecRoot == InitRoot /\ [][NextRoot]_vars

(***************************************************************************)
(* Properties.                                                             *)
(***************************************************************************)
\* the sessions the loop has passed
Passed == DOMAIN outcome

\* the loop body of session i made an effect of kind ev
Did(i, ev) == \E k \in DOMAIN log : log[k].n = i /\ log[k].ev = ev

\* the loop body of session i made no external effect at all
Quiet(i) == \A k \in DOMAIN log : log[k].n # i

\* the latest session the loop has passed ended as res, and another one follows
More(res) ==
    /\ outcome # <<>> /\ outcome[Len(outcome)].res = res
    /\ Len(outcome) < Len(sessions)

\* the loop body has a branch to take for the session it is at
Proceeds == AtNotDir \/ AtNothingToDo \/ AtSkipRunning \/ AtDryRun \/ AtSubmit

\* the session got past the completion test, to the part that builds the command
Built(o) == o.res \in {"running", "dryrun", "submitted", "failed"}

\* C1: a session directory is complete exactly when the number of reports found equals
\* the number of input images (more reports than images is not complete), and a
\* complete session without force is passed over: no query, no submission, no local
\* run, and the output and working directories stay as they were.
C1_CompleteSkipped ==
    prog = "sub" =>
        \A i \in Passed :
            LET o == outcome[i]
            IN  o.res # "nodir" =>
                    /\ (o.res = "nothing") <=> (o.found = o.expected /\ ~force)
                    /\ o.res = "nothing" => o.post = o.pre /\ Quiet(i)
                    /\ (o.found # o.expected \/ force) => Did(i, "query")

C1_Witness ==
    /\ ~force
    /\ \E i \in Passed : outcome[i].res = "nothing" /\ outcome[i].expected = 2
                         /\ outcome[i].found = 2
    /\ \E i \in Passed : outcome[i].res = "submitted"

\* C2: for a session that gets to build its command and whose job name is a line of
\* the query's output, the skip flag alone decides: with skip the session is skipped
\* as already running and its command is never run, though it is incomplete; without
\* skip the match is ignored and the command is printed and, unless dryrun, run.
C2_SkipFlagDecides ==
    prog = "sub" =>
        \A i \in Passed :
            LET o == outcome[i]
            IN  (Built(o) /\ o.job \in o.stdout) =>
                    /\ skip  => o.res = "running" /\ ~Did(i, "run")
                    /\ ~skip => o.res # "running" /\ (Did(i, "run") <=> ~dryrun)

C2_Witness ==
    /\ skip
    /\ \E i \in Passed : /\ outcome[i].res = "running"
                         /\ outcome[i].job \in outcome[i].stdout
                         /\ outcome[i].found < outcome[i].expected
                         /\ ~Did(i, "run")

\* C3 (as claimed): in a dry run no command is run for any session and no loop body
\* changes the output directory or the working directories.
C3_DryRunFrame ==
    (prog = "sub" /\ dryrun) =>
        \A i \in Passed : ~Did(i, "run") /\ outcome[i].post = outcome[i].pre

\* the index of the first effect of kind ev of session i
First(i, ev) == Min({k \in DOMAIN log : log[k].n = i /\ log[k].ev = ev})

\* the reports of the unit that were in the output directory before its loop body
Stale(o) == {r \in o.pre.outfiles : MatchHtml(o.unit, r)}

Reply(i) == log[First(i, "run")].arg

\* C5: a command that returns a non-zero code or writes to its error stream is
\* reported as failed, and the loop goes on: the process has not stopped, every later
\* session gets its turn, and the pass ends with every session passed and status zero.
C5_FailureIsolated ==
    prog = "sub" =>
        /\ \A i \in Passed :
            /\ Did(i, "run") <=> outcome[i].res \in {"submitted", "failed"}
            /\ Did(i, "run") =>
                (outcome[i].res = "failed" <=> (Reply(i)[1] # 0 \/ Reply(i)[2]))
        /\ (\E i \in Passed : outcome[i].res = "failed") =>
            /\ pc \in {"loop", "done"}
            /\ pc = "loop" => n = Len(outcome) + 1 /\ status = "running"
            /\ pc = "done" => Len(outcome) = Len(sessions) /\ status = "zero"
        /\ More("failed") => pc = "loop" /\ Proceeds

C5_Witness ==
    /\ pc = "done"
    /\ Len(outcome) = 2
    /\ outcome[1].res = "failed" /\ Reply(1) = <<0, TRUE>>
    /\ outcome[2].res = "submitted"

\* the path is a directory in the file system
OnDisk(p) == \E f \in tree : Len(f) > Len(p) /\ SubSeq(f, 1, Len(p)) = p

\* C6: an entry of the -s list that is no directory on disk makes no work unit: it is
\* only reported (no count, no cleaning, no query, no command, nothing changed on
\* disk), the loop goes on with the entries after it, and the pass ends with every
\* entry passed and status zero.
C6_MissingSessionExcluded ==
    (prog = "sub" /\ sessionsArg # <<>>) =>
        /\ \A i \in Passed :
            ~OnDisk(sessions[i]) =>
                /\ outcome[i].res = "nodir"
                /\ outcome[i].post = outcome[i].pre
                /\ Quiet(i)
        /\ More("nodir") => pc = "loop" /\ Proceeds
        /\ status # "nonzero"
        /\ pc = "done" => Len(outcome) = Len(sessions) /\ status = "zero"

C6_Witness ==
    /\ pc = "done" /\ status = "zero"
    /\ Len(outcome) = 2
    /\ ~OnDisk(sessions[1]) /\ outcome[1].res = "nodir"
    /\ outcome[2].res = "submitted"

\* C7 (as claimed): with bidsdir missing or not a directory the run stops before the
\* loop body is entered and does not end with status zero.
C7_MissingRootFatal ==
    (prog = "sub" /\ ~OnDisk(bidsdir)) => (outcome = <<>> /\ status # "zero")

\* C7 (amended): a missing or non-directory bidsdir is not fatal: no entry is a
\* directory, so every entry is only reported, nothing is queried, run or changed, and
\* the run never ends with a non-zero status; mriqc_sub ends with status zero exactly
\* when the loop has passed every entry.
C7_MissingRootHarmless ==
    prog = "sub" =>
        /\ ~OnDisk(bidsdir) =>
            /\ \A i \in Passed : outcome[i].res = "nodir" /\ outcome[i].post = outcome[i].pre
            /\ log = <<>>
            /\ status # "nonzero"
        /\ status = "zero" <=> (pc = "done" /\ Len(outcome) = Len(sessions))

C7_Witness ==
    /\ prog = "sub" /\ ~OnDisk(bidsdir)
    /\ pc = "done" /\ status = "zero"
    /\ Len(outcome) = 2

\* the group run got past its checks, to the test of the running jobs
GroupDecided == prog = "group" /\ pc \in {"done", "raised"} /\ Did(1, "query")

\* C8 (as claimed): without -f and with an mriqc_ job running or scheduled the group
\* job is not submitted and the call ends normally; with -f the group job is submitted
\* whatever is running.
C8_ForceOption ==
    GroupDecided =>
        /\ (~fOpt /\ running # {}) => ~Did(1, "run") /\ pc = "done"
        /\ fOpt => Did(1, "run")

\* the participant-level reports in the output directory
SubReports == {r \in outfiles : Head(r) = "sub-" /\ Last(r) = ".html"}

\* C9: the group step is gated on participant-level output: when the output directory
\* does not exist or holds no sub-*.html report, mriqc_group asks the resource manager
\* nothing and submits nothing; a query or a submission implies such a report.
C9_GroupGated ==
    prog = "group" =>
        /\ (~outIsDir \/ SubReports = {}) => log = <<>> /\ running = {} /\ ~hint
        /\ log # <<>> => outIsDir /\ SubReports # {}

C9_Witness ==
    /\ prog = "group" /\ pc = "done"
    /\ outIsDir /\ outfiles = {GroupReport}
    /\ queue = {} /\ log = <<>>

\* C10 (as claimed): the text naming the next step, mriqc_group, is printed only after
\* a pass that was no dry run and in which no submission failed.
C10_HintOnlyOnSuccess ==
    (prog = "sub" /\ hint) =>
        /\ ~dryrun
        /\ \A i \in Passed : outcome[i].res # "failed"

\* C11 (as claimed): the resource manager is asked once per pass, so that every
\* session that builds its command is matched against the same output.
C11_OneQuery ==
    prog = "sub" =>
        /\ Cardinality({k \in DOMAIN log : log[k].ev = "query"}) <= 1
        /\ \A i, j \in Passed :
            (Built(outcome[i]) /\ Built(outcome[j])) => outcome[i].stdout = outcome[j].stdout

\* the job of session j was accepted by the resource manager
Queued(j) == ~nosub /\ Did(j, "run") /\ Reply(j)[1] = 0

\* C11 (amended): there is no query before the loop; every loop body that builds its
\* command asks the resource manager once itself, the others do not ask, and a
\* session is matched against the output of its own query, which holds the jobs the
\* pass has submitted before it.
C11_QueryPerUnit ==
    prog = "sub" =>
        /\ outcome = <<>> => log = <<>>
        /\ \A i \in Passed :
            LET o == outcome[i]
            IN  /\ Cardinality({k \in DOMAIN log : log[k].n = i /\ log[k].ev = "query"})
                       = IF Built(o) THEN 1 ELSE 0
                /\ Built(o) =>
                    /\ \A j \in 1..(i - 1) : Queued(j) => outcome[j].job \in o.stdout
                    /\ o.res = "running" <=>
                           (skip /\ \E line \in o.stdout : Contains(line, o.job))

C11_Witness ==
    /\ prog = "sub" /\ Len(outcome) = 2
    /\ outcome[1].res = "submitted" /\ Queued(1)
    /\ outcome[1].job \notin outcome[1].stdout
    /\ outcome[2].res = "running" /\ outcome[2].job = outcome[1].job
    /\ Cardinality({k \in DOMAIN log : log[k].ev = "query"}) = 2

\* C13 (as claimed): with a work root given and without force, no loop body removes a
\* working directory under the work root, whether it submits, runs locally or is a
\* dry run.
C13_WorkrootKept ==
    (prog = "sub" /\ workroot # <<>> /\ ~force) =>
        /\ \A k \in DOMAIN log : log[k].ev = "rmtree" => ~IsPrefix(workroot, log[k].arg)
        /\ \A i \in Passed :
            {d \in outcome[i].pre.workdirs : IsPrefix(workroot, d)}
                \subseteq outcome[i].post.workdirs

\* C14 (as claimed): running locally without a work root, the working directory of a
\* session is removed after its command has returned, whatever the reply, and no loop
\* body leaves a working directory behind that was not there before it.
C14_LocalScratchRemoved ==
    (prog = "sub" /\ nosub /\ ~dryrun /\ workroot = <<>>) =>
        \A i \in Passed :
            /\ Did(i, "run") =>
                /\ Did(i, "rmtree")
                /\ workdir(sessions[i]) \notin outcome[i].post.workdirs
            /\ outcome[i].post.workdirs \subseteq outcome[i].pre.workdirs

\* C17 (as claimed): a session is skipped as running only if its very job name is a
\* line of the query's output.
C17_ExactNameOnly ==
    prog = "sub" =>
        \A i \in Passed : outcome[i].res = "running" => outcome[i].job \in outcome[i].stdout

\* the report is one of the unit itself: its name goes on with a new "_" entity after
\* the unit's name (after the subject's name, for a unit without a session)
Own(o, r) ==
    /\ MatchHtml(o.unit, r)
    /\ IF Last(o.unit) = "_" THEN r[Len(o.unit) + 1] # "ses-"
                             ELSE r[Len(o.unit) + 1] = "_"

\* C18 (as claimed): the reports counted as found for a session are the unit's own,
\* and a loop body removes no report of another unit from the output directory.
C18_OwnReportsOnly ==
    prog = "sub" =>
        \A i \in Passed :
            LET o == outcome[i]
            IN  o.res # "nodir" =>
                    /\ o.found = Cardinality({r \in o.pre.outfiles : Own(o, r)})
                    /\ \A r \in o.pre.outfiles : ~Own(o, r) => r \in o.post.outfiles

\* C19 (as claimed): for a session skipped as running nothing is removed and nothing
\* is made: its loop body only asks the resource manager, and the output and working
\* directories are after it as they were before, also with force.
C19_SkippedUntouched ==
    prog = "sub" =>
        \A i \in Passed :
            outcome[i].res = "running" =>
                /\ outcome[i].post = outcome[i].pre
                /\ \A k \in DOMAIN log : log[k].n = i => log[k].ev = "query"

\* C12 (as claimed): without a work root, two invocations that handle the same session
\* at once do not share a working directory: while the command of one of them runs,
\* the working directory it runs in is not removed by the other.
C12_WorkdirNotShared ==
    (prog = "sub" /\ workroot = <<>> /\ peer.at = "run") =>
        workdir(peer.session) \in workdirs

\* C15 (as claimed): in a forced run, a report that cannot be unlinked does not stop
\* the run: the session still gets its command run and the loop goes on.
C15_CleanupNonFatal ==
    (prog = "sub" /\ force) =>
        \A k \in DOMAIN log :
            log[k].ev = "raise" =>
                /\ pc \in {"loop", "done"} /\ status # "nonzero"
                /\ log[k].n \in Passed => Did(log[k].n, "run")

\* C16 (as claimed): whatever the path of the dataset, two different session
\* directories of one run have different job names.
C16_JobNamesDistinct ==
    prog = "sub" =>
        \A i, j \in Passed :
            ( /\ outcome[i].res # "nodir" /\ outcome[j].res # "nodir"
              /\ sessions[i] # sessions[j] ) => outcome[i].job # outcome[j].job

====
